---- MODULE Spec2Model ----
(***************************************************************************)
(* ShoreSquad service worker (sw.js): install / activate / fetch handlers  *)
(* over the origin's Cache Storage.                                        *)
(*                                                                         *)
(* Two deployments of the worker script run the same code: "prev" (the     *)
(* deployment that was registered first) and "cur" (the deployment that    *)
(* supersedes it).  They differ only in the value of CACHE_NAME; "cur"     *)
(* carries the value of the source, "prev" either an older version string  *)
(* (a version bump) or the same one (a redeploy without a bump).           *)
(***************************************************************************)
EXTENDS Integers, Sequences, FiniteSets, TLC

\* ------------------------------------------------------------------ bounds
MaxReq == 1
MaxWindows == 2
MaxPages == 2
MaxItems == 5

\* --------------------------------------------------------------- constants
CACHE_NAME == "shoresquad-v1"
ASSETS_TO_CACHE == << "/", "/index.html", "/css/styles.css", "/js/app.js", "/manifest.json" >>

ManifestKeys == { ASSETS_TO_CACHE[i] : i \in 1..Len(ASSETS_TO_CACHE) }

\* version string of the superseded deployment after a version bump, and a
\* generation left in the origin's cache storage by an even older deployment
V_OLD == "shoresquad-v0"
V_LEGACY == "shoresquad-old"
Names == { V_LEGACY, V_OLD, CACHE_NAME }

Workers == { "prev", "cur" }
Reqs == 1..MaxReq

\* the key the fetch handler falls back to when the network rejects
FALLBACK_KEY == "/index.html"
\* the forecast request of the page (loadWeatherData), the one call to an API
API_URL == "https://api.data.gov.sg/v1/environment/4-day-weather-forecast"

\* resources the page asks for: one of the app shell, one outside it
ReqUrls == { "/index.html", API_URL }
Methods == { "GET", "POST" }

VARIABLES
    cacheName,  \* CACHE_NAME of each deployment
    cacheList,  \* names of the caches in Cache Storage
    store,      \* content of each cache: request key -> response
    wstate,     \* lifecycle state of each worker
    inst,       \* progress of the promise handed to waitUntil by install
    skipped,    \* workers that called skipWaiting()
    actPc,      \* progress of the promise handed to waitUntil by activate
    del,        \* per worker: the caches.delete() calls issued, by name
    active,     \* the registration's active worker (controls the pages)
    req,        \* the fetch events being handled
    raced,      \* history: workers activated while a fetch event of the
                \* superseded worker was still being handled
    tray,       \* the notifications on display, oldest first
    lastPush,   \* the last push event and what its handler did
    windows,    \* the URLs of the open window clients, in matchAll order
    focused,    \* index in windows of the window last focused, 0 if none
    click,      \* the notificationclick event being handled
    stored,     \* localStorage item 'darkMode' ("null" when absent)
    prefersDark,\* matchMedia('(prefers-color-scheme: dark)').matches
    page,       \* the open pages (tabs) of the app
    geo,        \* the getCurrentPosition call of initializeApp
    timer,      \* the 500 ms timer of loadInitialData
    appEvents,  \* app.events (ids of the events)
    eventCards, \* content of #eventsContainer
    forecast,   \* the forecast request of loadWeatherData
    weatherCards \* content of #weatherContainer

swVars == << cacheName, cacheList, store, wstate, inst, skipped, actPc, del, active, req, raced >>
notifVars == << tray, lastPush, windows, focused, click >>
pageVars == << stored, prefersDark, page >>

dataVars == << geo, timer, appEvents, eventCards, forecast, weatherCards >>

vars == << swVars, notifVars, pageVars, dataVars >>

\* ---------------------------------------------------------------- helpers
NoResp == [ url |-> "", status |-> 0, type |-> "none" ]
Rejected == [ url |-> "", status |-> 0, type |-> "rejected" ]
EmptyCache == [ k \in {} |-> NoResp ]
NoDel == [ n \in {} |-> "pending" ]

Resp(u, s, t) == [ url |-> u, status |-> s, type |-> t ]

\* what fetch(request) can resolve with
NetResponses(u) ==
    { Resp(u, 200, "basic"), Resp(u, 404, "basic"), Resp(u, 0, "opaque"),
      Resp(u, 0, "opaqueredirect"), Resp(u, 0, "error") }

IdleReq == [ method |-> "none", url |-> "", worker |-> "none", pc |-> "idle",
             fetched |-> FALSE, net |-> NoResp, kind |-> "none", resp |-> NoResp,
             pop |-> "none", orphan |-> FALSE ]

\* --------------------------------------------------- Cache Storage (platform)
\* caches.open(name): the cache is created if absent
OpenedList(n) == cacheList \cup { n }

\* cache.addAll / cache.put: entries of g are written over those of f
Written(f, g) ==
    [ k \in (DOMAIN f) \cup (DOMAIN g) |-> IF k \in DOMAIN g THEN g[k] ELSE f[k] ]

\* caches.delete(name): the cache leaves Cache Storage with all its entries
RemovedList(n) == cacheList \ { n }

\* caches.match(key): the response of a cache that holds the key, or undefined.
\* (The platform searches the caches in creation order; the entries the worker
\* stores under one key are all the same response, so the order is not kept.)
CachesMatch(k) ==
    LET hits == { store[n][k] : n \in { m \in cacheList : k \in DOMAIN store[m] } }
    IN  IF hits = {} THEN NoResp ELSE CHOOSE response \in hits : TRUE

TypeOK ==
    /\ cacheName \in [ Workers -> Names ]
    /\ cacheList \subseteq Names
    /\ \A n \in Names : DOMAIN store[n] \subseteq ManifestKeys \cup ReqUrls
    /\ \A n \in Names \ cacheList : store[n] = EmptyCache
    /\ wstate \in [ Workers -> { "none", "installing", "installed", "activating",
                                 "activated", "redundant" } ]
    /\ inst \in [ Workers -> { "none", "open", "addAll", "addAllDetached", "ok",
                               "okDetached", "failed" } ]
    /\ skipped \subseteq Workers
    /\ actPc \in [ Workers -> { "none", "keys", "all", "fulfilled", "rejected" } ]
    /\ \A w \in Workers : DOMAIN del[w] \subseteq Names
    /\ active \in Workers \cup { "none" }
    /\ DOMAIN req = Reqs
    /\ raced \subseteq Workers
    /\ Len(tray) <= 1
    /\ lastPush.outcome \in { "none", "shown", "threw" }
    /\ Len(windows) <= MaxWindows
    /\ focused \in 0..Len(windows)
    /\ click.pc \in { "idle", "matchAll" }
    /\ stored \in { "<null>", "true", "false" }
    /\ prefersDark \in BOOLEAN
    /\ DOMAIN page = 1..MaxPages
    /\ geo \in { "none", "unavailable", "pending", "success", "error" }
    /\ timer \in { "none", "pending", "fired" }
    /\ Len(appEvents) \in { 0, 3 }
    /\ eventCards.rendered \in BOOLEAN
    /\ forecast.pc \in { "idle", "fetch", "json", "done" }
    /\ weatherCards.rendered \in BOOLEAN

SwInit ==
    /\ cacheName \in { f \in [ Workers -> Names ] :
                         f["cur"] = CACHE_NAME /\ f["prev"] \in { V_OLD, CACHE_NAME } }
    /\ cacheList \in { {}, { V_LEGACY } }
    /\ store = [ n \in Names |-> EmptyCache ]
    /\ wstate = [ w \in Workers |-> "none" ]
    /\ inst = [ w \in Workers |-> "none" ]
    /\ skipped = {}
    /\ actPc = [ w \in Workers |-> "none" ]
    /\ del = [ w \in Workers |-> NoDel ]
    /\ active = "none"
    /\ req = [ r \in Reqs |-> IdleReq ]
    /\ raced = {}

\* ------------------------------------------------------------ install handler
\* The runtime evaluates a deployment's script and fires 'install'.  The handler
\* hands caches.open(CACHE_NAME).then(addAll) to waitUntil and calls
\* skipWaiting().  A deployment is installed after the one before it has left
\* the installing state (the runtime's job queue).
InstallStart(w) ==
    /\ wstate[w] = "none"
    /\ w = "cur" => wstate["prev"] \in { "activated", "redundant" }
    /\ wstate' = [ wstate EXCEPT ![w] = "installing" ]
    /\ inst' = [ inst EXCEPT ![w] = "open" ]
    /\ skipped' = skipped \cup { w }
    /\ UNCHANGED << cacheName, cacheList, store, actPc, del, active, req, raced, notifVars, pageVars, dataVars >>

\* caches.open(CACHE_NAME) resolves
InstallOpen(w) ==
    /\ wstate[w] = "installing" /\ inst[w] = "open"
    /\ cacheList' = OpenedList(cacheName[w])
    /\ inst' = [ inst EXCEPT ![w] = "addAll" ]
    /\ UNCHANGED << cacheName, store, wstate, skipped, actPc, del, active, req, raced, notifVars, pageVars, dataVars >>

\* ShellEntries with the last asset of the list left out
ShellEntries_MissingLast ==
    [ k \in { ASSETS_TO_CACHE[i] : i \in 1..(Len(ASSETS_TO_CACHE) - 1) } |-> Resp(k, 200, "basic") ]

\* the entries cache.addAll writes when every asset was fetched
ShellEntries == [ k \in ManifestKeys |-> Resp(k, 200, "basic") ]

\* InstallRejected with the rejection caught, so that waitUntil sees a
\* fulfilled promise
InstallRejected_Caught(w) ==
    /\ inst' = [ inst EXCEPT ![w] = "failed" ]
    /\ wstate' = [ wstate EXCEPT ![w] = "installed" ]
    /\ UNCHANGED << cacheName, cacheList, store, skipped, actPc, del, active, req, raced, notifVars, pageVars, dataVars >>

\* what is left of the install when the waitUntil promise rejects
InstallRejected(w) ==
    /\ inst' = [ inst EXCEPT ![w] = "failed" ]
    /\ wstate' = [ wstate EXCEPT ![w] = "redundant" ]
    /\ UNCHANGED << cacheName, cacheList, store, skipped, actPc, del, active, req, raced, notifVars, pageVars, dataVars >>

\* caches.open(CACHE_NAME) rejects
InstallOpenFail(w) ==
    /\ wstate[w] = "installing" /\ inst[w] = "open"
    /\ InstallRejected(w)

\* cache.addAll(ASSETS_TO_CACHE) settles; bad = the assets whose fetch failed.
\* addAll stores all the responses in one step, or none; the waitUntil promise
\* settles with it and the worker becomes installed, or redundant.
InstallAddAll(w, bad) ==
    /\ wstate[w] = "installing" /\ inst[w] \in { "addAll", "addAllDetached" }
    /\ IF bad = {}
       THEN /\ store' = [ store EXCEPT ![cacheName[w]] =
                            IF inst[w] = "addAll" THEN Written(@, ShellEntries) ELSE @ ]
            /\ inst' = [ inst EXCEPT ![w] = IF inst[w] = "addAll" THEN "ok" ELSE "okDetached" ]
            /\ wstate' = [ wstate EXCEPT ![w] = "installed" ]
            /\ UNCHANGED << cacheName, cacheList, skipped, actPc, del, active, req, raced, notifVars, pageVars, dataVars >>
       ELSE InstallRejected(w)

\* ----------------------------------------------------------- activate handler
\* skipWaiting() was called, so the installed worker does not wait for the pages
\* of the worker before it to close.  The runtime makes it the active worker,
\* the worker before it redundant, and fires 'activate': the handler hands
\* caches.keys().then(...) to waitUntil and calls clients.claim().  Fetch events
\* are held back until the worker is activated.
ActivateStart(w) ==
    /\ wstate[w] = "installed"
    /\ w \in skipped \/ active = "none"
    /\ wstate' = [ v \in Workers |->
                     IF v = w THEN "activating"
                     ELSE IF v = active THEN "redundant" ELSE wstate[v] ]
    /\ active' = w
    /\ actPc' = [ actPc EXCEPT ![w] = "keys" ]
    /\ raced' = IF \E r \in Reqs : req[r].pc # "idle" THEN raced \cup { w } ELSE raced
    /\ UNCHANGED << cacheName, cacheList, store, inst, skipped, del, req, notifVars, pageVars, dataVars >>

\* StaleNames with only the version before the current one deleted
StaleNames_PreviousOnly(w, names) == { n \in names : n # cacheName[w] /\ n = V_OLD }

\* StaleNames without the comparison with CACHE_NAME
StaleNames_All(w, names) == names

\* the names the handler deletes: cacheName !== CACHE_NAME
StaleNames(w, names) == { n \in names : n # cacheName[w] }

\* caches.keys() resolves; cacheNames.map issues one caches.delete per stale
\* name, all in the same turn, and Promise.all waits on them
ActivateKeys(w) ==
    /\ wstate[w] = "activating" /\ actPc[w] = "keys"
    /\ del' = [ del EXCEPT ![w] = [ n \in StaleNames(w, cacheList) |-> "pending" ] ]
    /\ actPc' = [ actPc EXCEPT ![w] = "all" ]
    /\ UNCHANGED << cacheName, cacheList, store, wstate, inst, skipped, active, req, raced, notifVars, pageVars, dataVars >>

\* A cache object obtained from caches.open before its cache left Cache Storage
\* still accepts writes, but they no longer reach Cache Storage.
ReqDetached(names) ==
    [ r \in Reqs |->
        IF req[r].pop = "put" /\ cacheName[req[r].worker] \in names
        THEN [ req[r] EXCEPT !.orphan = TRUE ] ELSE req[r] ]

InstDetached(names) ==
    [ w \in Workers |->
        IF inst[w] = "addAll" /\ cacheName[w] \in names THEN "addAllDetached" ELSE inst[w] ]

\* The outcome of a deletion is kept while Promise.all still waits on it; once
\* the waitUntil promise has settled nothing reads it any more.
Pending(d) == [ n \in { m \in DOMAIN d : d[m] = "pending" } |-> "pending" ]

Outcome(w, n, o) ==
    IF actPc[w] = "all" THEN [ del[w] EXCEPT ![n] = o ]
    ELSE [ m \in DOMAIN del[w] \ { n } |-> del[w][m] ]

\* one caches.delete(cacheName) resolves
DeleteOk(w, n) ==
    /\ n \in DOMAIN del[w] /\ del[w][n] = "pending"
    /\ del' = [ del EXCEPT ![w] = Outcome(w, n, "ok") ]
    /\ cacheList' = RemovedList(n)
    /\ store' = [ store EXCEPT ![n] = EmptyCache ]
    /\ req' = ReqDetached({ n })
    /\ inst' = InstDetached({ n })
    /\ UNCHANGED << cacheName, wstate, skipped, actPc, active, raced, notifVars, pageVars, dataVars >>

\* one caches.delete(cacheName) rejects
DeleteFail(w, n) ==
    /\ n \in DOMAIN del[w] /\ del[w][n] = "pending"
    /\ del' = [ del EXCEPT ![w] = Outcome(w, n, "failed") ]
    /\ UNCHANGED << cacheName, cacheList, store, wstate, inst, skipped, actPc, active, req, raced, notifVars, pageVars, dataVars >>

\* Promise.all(promises): fulfilled when every promise is, rejected as soon as
\* one of them is
PromiseAllDone(d) ==
    \/ \A n \in DOMAIN d : d[n] = "ok"
    \/ \E n \in DOMAIN d : d[n] = "failed"

\* the waitUntil promise settles; the runtime reports the worker activated
\* whether it was fulfilled or rejected
ActivateDone(w) ==
    /\ wstate[w] = "activating" /\ actPc[w] = "all"
    /\ PromiseAllDone(del[w])
    /\ wstate' = [ wstate EXCEPT ![w] = "activated" ]
    /\ actPc' = [ actPc EXCEPT ![w] =
                    IF \E n \in DOMAIN del[w] : del[w][n] = "failed"
                    THEN "rejected" ELSE "fulfilled" ]
    /\ del' = [ del EXCEPT ![w] = Pending(@) ]
    /\ UNCHANGED << cacheName, cacheList, store, inst, skipped, active, req, raced, notifVars, pageVars, dataVars >>

\* -------------------------------------------------------------- fetch handler
\* FetchEvent with fetch(event.request) called at once, beside the cache lookup
FetchEvent_RaceNetwork(r, m, u) ==
    /\ req[r].pc = "idle"
    /\ \A q \in Reqs : q < r => req[q].pc # "idle"
    /\ active # "none" /\ wstate[active] = "activated"
    /\ req' = [ req EXCEPT ![r] =
                  [ IdleReq EXCEPT !.method = m, !.url = u, !.worker = active,
                                   !.pc = IF m # "GET" THEN "pass" ELSE "match",
                                   !.fetched = (m = "GET") ] ]
    /\ UNCHANGED << cacheName, cacheList, store, wstate, inst, skipped, actPc, del, active, raced, notifVars, pageVars, dataVars >>

\* FetchEvent without the test of the method
FetchEvent_AnyMethod(r, m, u) ==
    /\ req[r].pc = "idle"
    /\ \A q \in Reqs : q < r => req[q].pc # "idle"
    /\ active # "none" /\ wstate[active] = "activated"
    /\ req' = [ req EXCEPT ![r] =
                  [ IdleReq EXCEPT !.method = m, !.url = u, !.worker = active,
                                   !.pc = "match" ] ]
    /\ UNCHANGED << cacheName, cacheList, store, wstate, inst, skipped, actPc, del, active, raced, notifVars, pageVars, dataVars >>

\* The runtime fires 'fetch' on the active worker, once it is activated, for a
\* request of a controlled page.  A non-GET request makes the handler return
\* before respondWith: the request is left to the browser ("pass").
FetchEvent(r, m, u) ==
    /\ req[r].pc = "idle"
    /\ \A q \in Reqs : q < r => req[q].pc # "idle"
    /\ active # "none" /\ wstate[active] = "activated"
    /\ req' = [ req EXCEPT ![r] =
                  [ IdleReq EXCEPT !.method = m, !.url = u, !.worker = active,
                                   !.pc = IF m # "GET" THEN "pass" ELSE "match" ] ]
    /\ UNCHANGED << cacheName, cacheList, store, wstate, inst, skipped, actPc, del, active, raced, notifVars, pageVars, dataVars >>

\* FetchMatch with the network asked first, whatever the cache holds
FetchMatch_NetworkFirst(r) ==
    /\ req[r].pc = "match"
    /\ req' = [ req EXCEPT ![r] = [ @ EXCEPT !.pc = "net", !.fetched = TRUE ] ]
    /\ UNCHANGED << cacheName, cacheList, store, wstate, inst, skipped, actPc, del, active, raced, notifVars, pageVars, dataVars >>

\* caches.match(event.request) resolves: the cached response is returned, or
\* fetch(event.request) is called
FetchMatch(r) ==
    /\ req[r].pc = "match"
    /\ LET response == CachesMatch(req[r].url) IN
         req' = [ req EXCEPT ![r] =
                    IF response # NoResp
                    THEN [ @ EXCEPT !.pc = "done", !.kind = "response", !.resp = response ]
                    ELSE [ @ EXCEPT !.pc = "net", !.fetched = TRUE ] ]
    /\ UNCHANGED << cacheName, cacheList, store, wstate, inst, skipped, actPc, del, active, raced, notifVars, pageVars, dataVars >>

\* Cacheable without the test of the status
Cacheable_NoStatusTest(response) ==
    ~ (response = NoResp \/ response.type = "error")

\* if (!response || response.status !== 200 || response.type === 'error') return response
Cacheable(response) ==
    ~ (response = NoResp \/ response.status # 200 \/ response.type = "error")

\* fetch(event.request) resolves with response: it is returned, and when it is
\* cacheable caches.open(CACHE_NAME) is called first, without being awaited
FetchResolve(r, response) ==
    /\ req[r].pc = "net"
    /\ req' = [ req EXCEPT ![r] =
                  [ @ EXCEPT !.pc = "done", !.net = response, !.kind = "response",
                             !.resp = response,
                             !.pop = IF Cacheable(response) THEN "open" ELSE "none" ] ]
    /\ UNCHANGED << cacheName, cacheList, store, wstate, inst, skipped, actPc, del, active, raced, notifVars, pageVars, dataVars >>

\* fetch(event.request) rejects: the catch handler calls caches.match('/index.html')
FetchReject(r) ==
    /\ req[r].pc = "net"
    /\ req' = [ req EXCEPT ![r] = [ @ EXCEPT !.pc = "fallback", !.net = Rejected ] ]
    /\ UNCHANGED << cacheName, cacheList, store, wstate, inst, skipped, actPc, del, active, raced, notifVars, pageVars, dataVars >>

\* FetchFallback with the request's own key looked up again
FetchFallback_OwnKey(r) ==
    /\ req[r].pc = "fallback"
    /\ LET response == CachesMatch(req[r].url) IN
         req' = [ req EXCEPT ![r] =
                    IF response # NoResp
                    THEN [ @ EXCEPT !.pc = "done", !.kind = "response", !.resp = response ]
                    ELSE [ @ EXCEPT !.pc = "done", !.kind = "error" ] ]
    /\ UNCHANGED << cacheName, cacheList, store, wstate, inst, skipped, actPc, del, active, raced, notifVars, pageVars, dataVars >>

\* FetchFallback with an offline page made up when nothing is cached
FetchFallback_Synthetic(r) ==
    /\ req[r].pc = "fallback"
    /\ LET response == CachesMatch(FALLBACK_KEY) IN
         req' = [ req EXCEPT ![r] =
                    IF response # NoResp
                    THEN [ @ EXCEPT !.pc = "done", !.kind = "response", !.resp = response ]
                    ELSE [ @ EXCEPT !.pc = "done", !.kind = "response",
                                    !.resp = Resp("offline", 503, "default") ] ]
    /\ UNCHANGED << cacheName, cacheList, store, wstate, inst, skipped, actPc, del, active, raced, notifVars, pageVars, dataVars >>

\* caches.match('/index.html') resolves, with a response or with undefined;
\* respondWith turns undefined into a network error for the page
FetchFallback(r) ==
    /\ req[r].pc = "fallback"
    /\ LET response == CachesMatch(FALLBACK_KEY) IN
         req' = [ req EXCEPT ![r] =
                    IF response # NoResp
                    THEN [ @ EXCEPT !.pc = "done", !.kind = "response", !.resp = response ]
                    ELSE [ @ EXCEPT !.pc = "done", !.kind = "error" ] ]
    /\ UNCHANGED << cacheName, cacheList, store, wstate, inst, skipped, actPc, del, active, raced, notifVars, pageVars, dataVars >>

\* caches.open(CACHE_NAME) of the populate resolves
PopulateOpen(r) ==
    /\ req[r].pop = "open"
    /\ cacheList' = OpenedList(cacheName[req[r].worker])
    /\ req' = [ req EXCEPT ![r].pop = "put" ]
    /\ UNCHANGED << cacheName, store, wstate, inst, skipped, actPc, del, active, raced, notifVars, pageVars, dataVars >>

\* caches.open(CACHE_NAME) of the populate rejects; nothing handles it
PopulateOpenFail(r) ==
    /\ req[r].pop = "open"
    /\ req' = [ req EXCEPT ![r].pop = "openFailed" ]
    /\ UNCHANGED << cacheName, cacheList, store, wstate, inst, skipped, actPc, del, active, raced, notifVars, pageVars, dataVars >>

\* PutEntry with the entry written under the key of the fallback document
PutEntry_WrongKey(r) == [ k \in { FALLBACK_KEY } |-> req[r].net ]

\* the entry cache.put(event.request, responseToCache) writes
PutEntry(r) == [ k \in { req[r].url } |-> req[r].net ]

\* cache.put resolves
PopulatePut(r) ==
    /\ req[r].pop = "put"
    /\ store' = [ store EXCEPT ![cacheName[req[r].worker]] =
                    IF req[r].orphan THEN @ ELSE Written(@, PutEntry(r)) ]
    /\ req' = [ req EXCEPT ![r].pop = "stored" ]
    /\ UNCHANGED << cacheName, cacheList, wstate, inst, skipped, actPc, del, active, raced, notifVars, pageVars, dataVars >>

\* PopulatePutFail with the rejection handed on to the page's answer
PopulatePutFail_Propagates(r) ==
    /\ req[r].pop = "put"
    /\ req' = [ req EXCEPT ![r] = [ @ EXCEPT !.pop = "putFailed", !.kind = "error",
                                            !.resp = NoResp ] ]
    /\ UNCHANGED << cacheName, cacheList, store, wstate, inst, skipped, actPc, del, active, raced, notifVars, pageVars, dataVars >>

\* cache.put rejects; nothing handles it
PopulatePutFail(r) ==
    /\ req[r].pop = "put"
    /\ req' = [ req EXCEPT ![r].pop = "putFailed" ]
    /\ UNCHANGED << cacheName, cacheList, store, wstate, inst, skipped, actPc, del, active, raced, notifVars, pageVars, dataVars >>

\* the event is over: the page has its answer and the populate has settled
Release(r) ==
    /\ req[r].pc \in { "done", "pass" }
    /\ req[r].pop \in { "none", "stored", "openFailed", "putFailed" }
    /\ req' = [ req EXCEPT ![r] = IdleReq ]
    /\ UNCHANGED << cacheName, cacheList, store, wstate, inst, skipped, actPc, del, active, raced, notifVars, pageVars, dataVars >>

\* ------------------------------------------------------------------ platform
\* Cache Storage is best-effort storage: the browser, or the user through the
\* browser's settings or developer tools, may clear it at any time, and the
\* worker stays registered.
ClearStorage ==
    /\ cacheList # {}
    /\ cacheList' = {}
    /\ store' = [ n \in Names |-> EmptyCache ]
    /\ req' = ReqDetached(Names)
    /\ inst' = InstDetached(Names)
    /\ UNCHANGED << cacheName, wstate, skipped, actPc, del, active, raced, notifVars, pageVars, dataVars >>

\* --------------------------------------------------------------- push handler
\* what event.data can be: absent, or a text
NO_DATA == "<no data>"
PushTexts ==
    { "{\"body\":\"Cleanup starts in 1 hour!\"}", "{}", "{\"body\":\"\"}", "null",
      "Cleanup starts in 1 hour!" }

\* JavaScript values the handler meets: an object with or without a body field,
\* null, and the SyntaxError event.data.json() throws
JsObject(has, b) == [ kind |-> "object", hasBody |-> has, body |-> b ]
JsNull == [ kind |-> "null", hasBody |-> FALSE, body |-> "" ]
JsSyntaxError == [ kind |-> "SyntaxError", hasBody |-> FALSE, body |-> "" ]

\* event.data.json(): JSON.parse of the payload text
JsonParse(text) ==
    CASE text = "{\"body\":\"Cleanup starts in 1 hour!\"}" -> JsObject(TRUE, "Cleanup starts in 1 hour!")
      [] text = "{}" -> JsObject(FALSE, "")
      [] text = "{\"body\":\"\"}" -> JsObject(TRUE, "")
      [] text = "null" -> JsNull
      [] OTHER -> JsSyntaxError

DEFAULT_BODY == "New update from ShoreSquad!"
NOTIFICATION_TITLE == "ShoreSquad"
NOTIFICATION_TAG == "shoresquad-notification"

\* const data = event.data ? event.data.json() : {}
PushData(d) == IF d = NO_DATA THEN JsObject(FALSE, "") ELSE JsonParse(d)

\* body: data.body || 'New update from ShoreSquad!'  (an empty string is falsy)
PushBody(data) == IF data.hasBody /\ data.body # "" THEN data.body ELSE DEFAULT_BODY

\* registration.showNotification: a notification replaces the one on display
\* that has the same tag
ShowNotification(t, n) == Append(SelectSeq(t, LAMBDA m : m.tag # n.tag), n)

\* what the last push event did: the options handed to showNotification, if
\* the handler got that far
NoNotification == [ title |-> "", body |-> "", tag |-> "" ]
NoPush == [ data |-> NO_DATA, outcome |-> "none", shown |-> NoNotification ]

\* The 'push' handler, which runs in one turn up to the showNotification call:
\* json() throws on a text that is not JSON, and data.body throws on null.
PushEvent(d) ==
    /\ LET data == PushData(d)
           options == [ title |-> NOTIFICATION_TITLE, body |-> PushBody(data),
                        tag |-> NOTIFICATION_TAG ]
       IN  IF data.kind # "object"
           THEN /\ lastPush' = [ data |-> d, outcome |-> "threw", shown |-> NoNotification ]
                /\ UNCHANGED tray
           ELSE /\ lastPush' = [ data |-> d, outcome |-> "shown", shown |-> options ]
                /\ tray' = ShowNotification(tray, options)
    /\ UNCHANGED << swVars, windows, focused, click, pageVars, dataVars >>

\* ------------------------------------------------------ notificationclick handler
\* client.url is the absolute URL of the window; the app is served from
\* http://localhost:5500
AbsUrl(path) ==
    CASE path = "/" -> "http://localhost:5500/"
      [] path = "/index.html" -> "http://localhost:5500/index.html"

ClientUrls == { AbsUrl("/"), AbsUrl("/index.html") }

\* the string the handler compares client.url with, and opens a window at
ROOT_PATH == "/"

NoClick == [ pc |-> "idle" ]

\* the user opens a window of the app
WindowOpened(u) ==
    /\ Len(windows) < MaxWindows
    /\ windows' = Append(windows, u)
    /\ UNCHANGED << swVars, tray, lastPush, focused, click, pageVars, dataVars >>

\* the user closes a window of the app
WindowClosed(i) ==
    /\ i \in 1..Len(windows)
    /\ windows' = [ j \in 1..(Len(windows) - 1) |-> IF j < i THEN windows[j] ELSE windows[j + 1] ]
    /\ focused' = IF focused = i THEN 0 ELSE IF focused > i THEN focused - 1 ELSE focused
    /\ UNCHANGED << swVars, tray, lastPush, click, pageVars, dataVars >>

\* the tags of the notifications the worker shows (the tray holds at most one
\* notification per tag)
Tags == { NOTIFICATION_TAG }

\* The user clicks the notification of tag t: event.notification.close(), and
\* clients.matchAll({ type: 'window' }) is handed to waitUntil.
NotificationClick(t) ==
    /\ click.pc = "idle"
    /\ \E i \in 1..Len(tray) : tray[i].tag = t
    /\ tray' = SelectSeq(tray, LAMBDA m : m.tag # t)
    /\ click' = [ NoClick EXCEPT !.pc = "matchAll" ]
    /\ UNCHANGED << swVars, lastPush, windows, focused, pageVars, dataVars >>

\* the clients of clientList for which client.url === '/' holds
RootClients(clientList) == { i \in 1..Len(clientList) : clientList[i] = ROOT_PATH }

\* clients.matchAll resolves with the open windows: the first client whose url
\* is '/' is focused; if there is none a window is opened at '/'
ClickMatched ==
    /\ click.pc = "matchAll"
    /\ LET hits == RootClients(windows)
       IN  IF hits # {}
           THEN /\ focused' = CHOOSE i \in hits : \A j \in hits : i <= j
                /\ UNCHANGED windows
           ELSE /\ Len(windows) < MaxWindows
                /\ windows' = Append(windows, AbsUrl(ROOT_PATH))
                /\ focused' = Len(windows) + 1
    /\ click' = [ click EXCEPT !.pc = "idle" ]
    /\ UNCHANGED << swVars, tray, lastPush, pageVars, dataVars >>

NotifIdle ==
    /\ tray = << >>
    /\ lastPush = NoPush
    /\ windows = << >>
    /\ focused = 0
    /\ click = NoClick

\* ------------------------------------------------------- app.js: dark mode
Pages == 1..MaxPages

\* localStorage.getItem('darkMode'): null, or the string that was stored
NO_ITEM == "<null>"
StoredValues == { NO_ITEM, "true", "false" }

\* localStorage.setItem('darkMode', app.darkMode) stores String(app.darkMode)
BoolStr(b) == IF b THEN "true" ELSE "false"

\* text of #toggleThemeBtn as the markup has it, and as toggleDarkMode sets it
MARKUP_TEXT == "<markup>"
LIGHT_MODE_TEXT == "Light Mode"
DARK_MODE_TEXT == "Dark Mode"

ClosedPage == [ pc |-> "closed", darkMode |-> FALSE, colorScheme |-> "", btn |-> MARKUP_TEXT ]

\* toggleDarkMode(), on the page's own state
ToggleDarkMode(pg) ==
    [ pg EXCEPT !.darkMode = ~pg.darkMode,
                !.colorScheme = IF ~pg.darkMode THEN "dark" ELSE "light",
                !.btn = IF ~pg.darkMode THEN LIGHT_MODE_TEXT ELSE DARK_MODE_TEXT ]

\* The page's script is evaluated: the app object is built, darkMode from the
\* stored item or the system's colour scheme.
ScriptEval(p) ==
    /\ page[p].pc = "closed"
    /\ page' = [ page EXCEPT ![p] = [ ClosedPage EXCEPT !.pc = "loading",
                                        !.darkMode = (stored = "true") \/ prefersDark ] ]
    /\ UNCHANGED << swVars, notifVars, dataVars, stored, prefersDark >>

\* DOMContentLoaded: initializeApp, setupEventListeners and loadInitialData
\* touch neither the theme nor localStorage (what they start is InitializeApp
\* below); then if (app.darkMode) toggleDarkMode()
DomContentLoaded(p) ==
    /\ page[p].pc = "loading"
    /\ IF page[p].darkMode
       THEN /\ page' = [ page EXCEPT ![p] = [ ToggleDarkMode(page[p]) EXCEPT !.pc = "ready" ] ]
            /\ stored' = BoolStr(~page[p].darkMode)
       ELSE /\ page' = [ page EXCEPT ![p].pc = "ready" ]
            /\ UNCHANGED stored
    /\ UNCHANGED << swVars, notifVars, dataVars, prefersDark >>

\* click on #toggleThemeBtn
ClickToggle(p) ==
    /\ page[p].pc = "ready"
    /\ page' = [ page EXCEPT ![p] = ToggleDarkMode(page[p]) ]
    /\ stored' = BoolStr(~page[p].darkMode)
    /\ UNCHANGED << swVars, notifVars, dataVars, prefersDark >>

\* the tab is closed or reloaded: the page's state is gone, localStorage stays
ClosePage(p) ==
    /\ page[p].pc # "closed"
    /\ page' = [ page EXCEPT ![p] = ClosedPage ]
    /\ UNCHANGED << swVars, notifVars, dataVars, stored, prefersDark >>

\* the system's colour scheme changes
SystemThemeChange ==
    /\ prefersDark' = ~prefersDark
    /\ UNCHANGED << swVars, notifVars, dataVars, stored, page >>

PageIdle ==
    /\ stored = NO_ITEM
    /\ prefersDark = FALSE
    /\ page = [ p \in Pages |-> ClosedPage ]

\* ------------------------------------------------- app.js: data loading
\* a container of the page before any render, and after a render
NotRendered == [ rendered |-> FALSE, cards |-> << >> ]
Rendered(cs) == [ rendered |-> TRUE, cards |-> cs ]

\* .slice(0, 4) of processWeatherData
WEATHER_DAYS == 4

\* mockEvents of addEventMarkersToMap
mockEvents ==
    << [ id |-> 1, name |-> "Venice Beach Cleanup", date |-> "2025-12-07",
         time |-> "9:00 AM - 12:00 PM" ],
       [ id |-> 2, name |-> "Santa Monica Pier Cleanup", date |-> "2025-12-08",
         time |-> "10:00 AM - 1:00 PM" ],
       [ id |-> 3, name |-> "Manhattan Beach Sweep", date |-> "2025-12-09",
         time |-> "2:00 PM - 5:00 PM" ] >>

\* renderEventCards(events): one card per event, with its name, date and time
\* (the number of attendees is random and is left out)
RenderEventCards(events) ==
    [ i \in 1..Len(events) |->
        [ heading |-> events[i].name, date |-> events[i].date, time |-> events[i].time ] ]

\* The data-loading part of the DOMContentLoaded handler: initializeApp() asks
\* for the position if the browser has geolocation (hasGeo), and
\* loadInitialData() sets the 500 ms timer.  Both return at once.
InitializeApp(hasGeo) ==
    /\ timer = "none"
    /\ geo' = IF hasGeo THEN "pending" ELSE "unavailable"
    /\ timer' = "pending"
    /\ UNCHANGED << swVars, notifVars, pageVars, appEvents, eventCards, forecast, weatherCards >>

\* getCurrentPosition calls back, with a position or with an error: either way
\* app.userLocation is set and initializeMap() runs, whose
\* addEventMarkersToMap() assigns mockEvents to app.events.
GeoCallback(outcome) ==
    /\ geo = "pending"
    /\ geo' = outcome
    /\ appEvents' = mockEvents
    /\ UNCHANGED << swVars, notifVars, pageVars, timer, eventCards, forecast, weatherCards >>

\* What the forecast API can answer with: a body that is not JSON, the JSON
\* text null, or an object, with or without items; an item with or without a
\* forecasts array.
Forecast(text) == [ forecast |-> text ]
Item(has, fs) == [ timestamp |-> "2025-12-07T00:00:00+08:00", hasForecasts |-> has, forecasts |-> fs ]
ItemKinds ==
    { Item(TRUE, << Forecast("Afternoon thundery showers"), Forecast("Fair") >>),
      Item(TRUE, << >>),
      Item(FALSE, << >>) }

Body(k, has, is) == [ kind |-> k, hasItems |-> has, items |-> is ]
NoBody == Body("none", FALSE, << >>)
ItemLists == UNION { [ 1..n -> ItemKinds ] : n \in 0..MaxItems }
Bodies ==
    { Body("text", FALSE, << >>), Body("null", FALSE, << >>), Body("object", FALSE, << >>) }
        \cup { Body("object", TRUE, is) : is \in ItemLists }

NoForecast == [ pc |-> "idle", outcome |-> "none", body |-> NoBody ]

\* getMockWeatherData(): (of each entry the location, the forecast and the
\* icon are kept; the temperature, humidity and wind figures are left out)
Weather(l, f, c) == [ location |-> l, forecast |-> f, condition |-> c ]
getMockWeatherData ==
    << Weather("Singapore - Today", "Sunny", "sun"),
       Weather("Singapore - Tomorrow", "Partly Cloudy", "sun behind cloud"),
       Weather("Singapore - Day 3", "Thundery Showers", "rain cloud"),
       Weather("Singapore - Day 4", "Fair", "sun behind small cloud") >>

\* date.toLocaleDateString('en-SG', { weekday, month, day }) of item.timestamp
FormatDate(timestamp) ==
    CASE timestamp = "2025-12-07T00:00:00+08:00" -> "Sun, 7 Dec"
      [] OTHER -> "Invalid Date"

\* determineForecastIcon(forecastText), on the texts that occur
determineForecastIcon(text) ==
    CASE text = "Afternoon thundery showers" -> "rain cloud"
      [] text = "Fair" -> "sun"
      [] OTHER -> "sun behind small cloud"

\* response.json() rejects: the body is not JSON
JsonRejects(body) == body.kind = "text"

\* processWeatherData throws a TypeError: apiData is null, or item.forecasts[0]
\* is read on an item without forecasts (map visits every item before slice)
ProcessThrows(apiData) ==
    \/ apiData.kind = "null"
    \/ /\ apiData.hasItems /\ Len(apiData.items) > 0
       /\ \E k \in 1..Len(apiData.items) : ~apiData.items[k].hasForecasts

\* one entry of the map of processWeatherData
WeatherOfItem(item) ==
    LET text == IF Len(item.forecasts) > 0 THEN item.forecasts[1].forecast ELSE ""
    IN  Weather("Singapore - " \o FormatDate(item.timestamp),
                IF text # "" THEN text ELSE "No forecast",
                determineForecastIcon(text))

\* processWeatherData(apiData), when it does not throw
processWeatherData(apiData) ==
    IF ~apiData.hasItems \/ Len(apiData.items) = 0
    THEN getMockWeatherData
    ELSE LET mapped == [ k \in 1..Len(apiData.items) |-> WeatherOfItem(apiData.items[k]) ]
         IN  SubSeq(mapped, 1, IF Len(mapped) < WEATHER_DAYS THEN Len(mapped) ELSE WEATHER_DAYS)

\* renderWeatherCards(data): one card per entry
RenderWeatherCards(data) ==
    [ k \in 1..Len(data) |->
        [ heading |-> data[k].location, icon |-> data[k].condition, text |-> data[k].forecast ] ]

\* fetch(forecastUrl) rejects: the catch handler renders the mock data
ForecastRejected ==
    /\ forecast.pc = "fetch"
    /\ forecast' = [ forecast EXCEPT !.pc = "done", !.outcome = "rejected" ]
    /\ weatherCards' = Rendered(RenderWeatherCards(getMockWeatherData))
    /\ UNCHANGED << swVars, notifVars, pageVars, geo, timer, appEvents, eventCards >>

\* fetch(forecastUrl) resolves with a response: response.json() is called
ForecastResponse(body) ==
    /\ forecast.pc = "fetch"
    /\ forecast' = [ forecast EXCEPT !.pc = "json", !.body = body ]
    /\ UNCHANGED << swVars, notifVars, pageVars, geo, timer, appEvents, eventCards, weatherCards >>

\* response.json() settles: the data is processed and rendered, or the catch
\* handler renders the mock data
ForecastParsed ==
    /\ forecast.pc = "json"
    /\ IF JsonRejects(forecast.body) \/ ProcessThrows(forecast.body)
       THEN /\ forecast' = [ forecast EXCEPT !.pc = "done", !.outcome = "caught" ]
            /\ weatherCards' = Rendered(RenderWeatherCards(getMockWeatherData))
       ELSE /\ forecast' = [ forecast EXCEPT !.pc = "done", !.outcome = "processed" ]
            /\ weatherCards' = Rendered(RenderWeatherCards(processWeatherData(forecast.body)))
    /\ UNCHANGED << swVars, notifVars, pageVars, geo, timer, appEvents, eventCards >>

\* The timer of loadInitialData fires: loadWeatherData() calls fetch,
\* loadEventsData() renders app.events as it is now, updateCrewStats() touches
\* neither.
TimerFired ==
    /\ timer = "pending"
    /\ timer' = "fired"
    /\ forecast' = [ NoForecast EXCEPT !.pc = "fetch" ]
    /\ eventCards' = Rendered(RenderEventCards(appEvents))
    /\ UNCHANGED << swVars, notifVars, pageVars, geo, appEvents, weatherCards >>

\* the page is closed or reloaded
Unload ==
    /\ timer # "none"
    /\ geo' = "none" /\ timer' = "none" /\ appEvents' = << >>
    /\ eventCards' = NotRendered /\ forecast' = NoForecast /\ weatherCards' = NotRendered
    /\ UNCHANGED << swVars, notifVars, pageVars >>

DataIdle ==
    /\ geo = "none" /\ timer = "none" /\ appEvents = << >>
    /\ eventCards = NotRendered /\ forecast = NoForecast /\ weatherCards = NotRendered

\* --------------------------------------------------------------- specification
Next ==
    \/ \E w \in Workers : InstallStart(w)
    \/ \E w \in Workers : InstallOpen(w)
    \/ \E w \in Workers : InstallOpenFail(w)
    \/ \E w \in Workers : \E bad \in SUBSET ManifestKeys : InstallAddAll(w, bad)
    \/ \E w \in Workers : ActivateStart(w)
    \/ \E w \in Workers : ActivateKeys(w)
    \/ \E w \in Workers : \E n \in Names : DeleteOk(w, n)
    \/ \E w \in Workers : \E n \in Names : DeleteFail(w, n)
    \/ \E w \in Workers : ActivateDone(w)
    \/ \E r \in Reqs : \E m \in Methods : \E u \in ReqUrls : FetchEvent(r, m, u)
    \/ \E r \in Reqs : FetchMatch(r)
    \/ \E r \in Reqs : \E response \in NetResponses(req[r].url) : FetchResolve(r, response)
    \/ \E r \in Reqs : FetchReject(r)
    \/ \E r \in Reqs : FetchFallback(r)
    \/ \E r \in Reqs : PopulateOpen(r)
    \/ \E r \in Reqs : PopulateOpenFail(r)
    \/ \E r \in Reqs : PopulatePut(r)
    \/ \E r \in Reqs : PopulatePutFail(r)
    \/ \E r \in Reqs : Release(r)
    \/ ClearStorage

Init == SwInit /\ NotifIdle /\ PageIdle /\ DataIdle

Spec == Init /\ [][Next]_vars

\* The cache machinery at rest, for the specifications of the other handlers.
SwIdle == SwInit /\ cacheName["prev"] = V_OLD /\ cacheList = {}

\* push and notificationclick
NotifInit == SwIdle /\ NotifIdle /\ PageIdle /\ DataIdle

NextNotif ==
    \/ \E d \in { NO_DATA } \cup PushTexts : PushEvent(d)
    \/ \E u \in ClientUrls : WindowOpened(u)
    \/ \E i \in 1..MaxWindows : WindowClosed(i)
    \/ \E t \in Tags : NotificationClick(t)
    \/ ClickMatched

SpecNotif == NotifInit /\ [][NextNotif]_vars

\* app.js pages over the origin's localStorage
PageInit ==
    /\ SwIdle
    /\ NotifIdle
    /\ stored \in StoredValues
    /\ prefersDark \in BOOLEAN
    /\ page = [ p \in Pages |-> ClosedPage ]
    /\ DataIdle

NextPage ==
    \/ \E p \in Pages : ScriptEval(p)
    \/ \E p \in Pages : DomContentLoaded(p)
    \/ \E p \in Pages : ClickToggle(p)
    \/ \E p \in Pages : ClosePage(p)
    \/ SystemThemeChange

SpecPage == PageInit /\ [][NextPage]_vars

\* app.js data loading of one page
DataInit == SwIdle /\ NotifIdle /\ PageIdle /\ DataIdle

NextData ==
    \/ \E hasGeo \in BOOLEAN : InitializeApp(hasGeo)
    \/ \E outcome \in { "success", "error" } : GeoCallback(outcome)
    \/ TimerFired
    \/ ForecastRejected
    \/ \E body \in Bodies : ForecastResponse(body)
    \/ ForecastParsed
    \/ Unload

SpecData == DataInit /\ [][NextData]_vars

\* ====================================================================== claims
\* the caches of Cache Storage that hold key k
Holding(k) == { n \in cacheList : k \in DOMAIN store[n] }

\* C1: when the cache lookup of an intercepted GET request resolves and the
\* request's key is cached, the request is answered at once with a cached
\* response for that key, and no network fetch has been issued for it.
C1_CacheHitServedFromCache ==
    [][ \A r \in Reqs :
          ( req[r].pc = "match" /\ req'[r].pc # "match" /\ Holding(req[r].url) # {} )
          => /\ req'[r].pc = "done"
             /\ req'[r].kind = "response"
             /\ \E n \in Holding(req[r].url) : req'[r].resp = store[n][req[r].url]
             /\ ~ req'[r].fetched
             /\ req'[r].pop = "none" ]_vars

C1_Witness ==
    \E r \in Reqs :
        /\ req[r].method = "GET" /\ req[r].pc = "done" /\ req[r].kind = "response"
        /\ ~ req[r].fetched /\ req[r].resp.url = req[r].url

\* C2 as claimed: once the store of a cacheable network response has settled,
\* the response was returned and the key is in the worker's current cache.
C2_Original ==
    \A r \in Reqs :
        ( req[r].pc = "done" /\ Cacheable(req[r].net)
          /\ req[r].pop \in { "stored", "openFailed", "putFailed" } /\ ~ req[r].orphan )
        => /\ req[r].kind = "response" /\ req[r].resp = req[r].net
           /\ req[r].url \in DOMAIN store[cacheName[req[r].worker]]

\* C2 as amended: a cacheable network response is returned to the caller and its
\* store is started; when that store succeeds (caches.open and cache.put both
\* resolve, the cache not having been removed in between) the response is in
\* the worker's current cache under the request's key.
C2_StoredWhenPutSucceeds ==
    [][ \A r \in Reqs :
          /\ ( req[r].pc = "net" /\ req'[r].pc = "done" /\ Cacheable(req'[r].net) )
             => ( req'[r].kind = "response" /\ req'[r].resp = req'[r].net
                  /\ req'[r].pop = "open" )
          /\ ( req[r].pop = "put" /\ req'[r].pop = "stored" /\ ~ req[r].orphan )
             => ( /\ cacheName[req[r].worker] \in cacheList'
                  /\ req[r].url \in DOMAIN store'[cacheName[req[r].worker]]
                  /\ store'[cacheName[req[r].worker]][req[r].url] = req[r].net ) ]_vars

C2_Witness ==
    \E r \in Reqs :
        /\ req[r].pc = "done" /\ req[r].pop = "stored" /\ ~ req[r].orphan
        /\ req[r].url \notin ManifestKeys
        /\ req[r].resp = req[r].net
        /\ req[r].url \in DOMAIN store[cacheName[req[r].worker]]

\* C3: a request whose network response is not a 200 or is error-typed, opaque
\* or a redirect starts no store, and every entry of every cache is a response
\* with status 200 and a type other than error.
C3_OnlySuccessfulResponsesStored ==
    /\ \A r \in Reqs :
         ( req[r].net # NoResp
           /\ ( req[r].net.status # 200
                \/ req[r].net.type \in { "error", "opaque", "opaqueredirect", "rejected" } ) )
         => req[r].pop = "none"
    /\ \A n \in Names : \A k \in DOMAIN store[n] :
         /\ store[n][k].status = 200
         /\ store[n][k].type \notin { "error", "opaque", "opaqueredirect" }

C3_Witness ==
    \E r \in Reqs :
        /\ req[r].pc = "done" /\ req[r].net.status = 404 /\ req[r].pop = "none"
        /\ req[r].resp = req[r].net
        /\ Holding(req[r].url) = {}

\* C4: the handling of a request whose method is not GET leaves Cache Storage as
\* it is, calls neither respondWith nor fetch, and starts no store.
C4_NonGetNotIntercepted ==
    [][ \A r \in Reqs :
          /\ ( req[r].pc = "idle" /\ req'[r].pc # "idle" /\ req'[r].method # "GET" )
             => ( req'[r].pc = "pass" /\ UNCHANGED << cacheList, store >> )
          /\ req'[r].method \notin { "GET", "none" }
             => ( req'[r].pc = "pass" /\ req'[r].kind = "none" /\ ~ req'[r].fetched
                  /\ req'[r].pop = "none" ) ]_vars

C4_Witness ==
    \E r \in Reqs : req[r].method = "POST" /\ req[r].pc = "pass" /\ cacheList # {}

\* C5: when the fallback lookup of a GET request whose network fetch rejected
\* resolves and '/index.html' is cached, the cached '/index.html' is the
\* response, whatever resource the request asked for.
C5_RootDocumentFallback ==
    [][ \A r \in Reqs :
          ( req[r].pc = "fallback" /\ req'[r].pc # "fallback" /\ Holding(FALLBACK_KEY) # {} )
          => /\ req'[r].pc = "done" /\ req'[r].kind = "response"
             /\ req'[r].resp.url = FALLBACK_KEY
             /\ \E n \in Holding(FALLBACK_KEY) : req'[r].resp = store[n][FALLBACK_KEY] ]_vars

C5_Witness ==
    \E r \in Reqs :
        /\ req[r].pc = "done" /\ req[r].net = Rejected /\ req[r].kind = "response"
        /\ req[r].url = API_URL /\ req[r].resp.url = FALLBACK_KEY

\* C6: when the fallback lookup of a GET request whose network fetch rejected
\* resolves and '/index.html' is not cached, the request fails: the page gets
\* an error and no response.
C6_FailsWithoutFallback ==
    [][ \A r \in Reqs :
          ( req[r].pc = "fallback" /\ req'[r].pc # "fallback" /\ Holding(FALLBACK_KEY) = {} )
          => /\ req'[r].pc = "done" /\ req'[r].kind = "error"
             /\ req'[r].resp = NoResp ]_vars

C6_Witness ==
    \E r \in Reqs :
        /\ req[r].pc = "done" /\ req[r].net = Rejected /\ req[r].kind = "error"
        /\ req[r].resp = NoResp

C8_Original ==
    [][ \A w \in Workers :
          ( wstate[w] = "installing" /\ wstate'[w] = "installed" /\ inst'[w] = "ok" )
          => /\ cacheName[w] \in cacheList'
             /\ DOMAIN store'[cacheName[w]] = ManifestKeys ]_vars

\* C8 as amended: when an install completes successfully (Cache Storage not
\* having been cleared under it), the cache named by the worker's version
\* string holds every key of the asset manifest, each with the response just
\* fetched, and besides them exactly the keys it held before the bulk add.
C8_ManifestAddedToCache ==
    [][ \A w \in Workers :
          ( wstate[w] = "installing" /\ wstate'[w] = "installed" /\ inst'[w] = "ok" )
          => /\ cacheName[w] \in cacheList'
             /\ DOMAIN store'[cacheName[w]] = ManifestKeys \cup DOMAIN store[cacheName[w]]
             /\ \A k \in ManifestKeys :
                  store'[cacheName[w]][k] = [ url |-> k, status |-> 200, type |-> "basic" ]
             /\ \A k \in DOMAIN store[cacheName[w]] \ ManifestKeys :
                  store'[cacheName[w]][k] = store[cacheName[w]][k] ]_vars

C8_Witness ==
    \E w \in Workers :
        /\ wstate[w] = "installed" /\ inst[w] = "ok"
        /\ cacheName[w] \in cacheList
        /\ DOMAIN store[cacheName[w]] = ManifestKeys \cup { API_URL }

\* C9: when the install of a worker fails (the cache cannot be opened, or the
\* fetch of some asset fails), nothing is written to Cache Storage, the worker
\* becomes redundant, the active worker stays the one it was, and from then on
\* the failed worker is never activating, activated or active and handles no
\* fetch event; a worker that was activated before is still the active one.
C9_InstallAllOrNothing ==
    [][ \A w \in Workers :
          /\ ( inst[w] # "failed" /\ inst'[w] = "failed" )
             => UNCHANGED << cacheList, store, active >>
          /\ inst'[w] = "failed"
             => /\ wstate'[w] = "redundant"
                /\ actPc'[w] = "none"
                /\ active' # w
                /\ \A r \in Reqs : req'[r].worker # w
          /\ ( inst'["cur"] = "failed" /\ inst'["prev"] \in { "ok", "okDetached" }
               /\ wstate["prev"] = "activated" )
             => ( active' = "prev" /\ wstate'["prev"] = "activated" ) ]_vars

C9_Witness ==
    /\ inst["cur"] = "failed" /\ wstate["cur"] = "redundant"
    /\ active = "prev" /\ wstate["prev"] = "activated"
    /\ \E r \in Reqs : req[r].worker = "prev" /\ req[r].pc = "match"

\* C10: once the activation of a worker is reported complete, none of the
\* deletions it issued is still unsettled.
C10_ActivationWaitsForDeletions ==
    \A w \in Workers :
        actPc[w] \in { "fulfilled", "rejected" }
        => \A n \in DOMAIN del[w] : del[w][n] # "pending"


\* C11 (as claimed): in every state after the activation of the current
\* deployment has completed with every deletion successful, no cache generation
\* other than the current one exists in cache storage, whatever fetch handling
\* (cache-populate writes in flight included) is interleaved.
C11_OneGenerationAfterActivation ==
    (wstate["cur"] = "activated" /\ actPc["cur"] = "fulfilled")
        => cacheList \subseteq { cacheName["cur"] }

\* C12 (as claimed): a push event whose payload text does not parse as JSON is
\* not fatal; the handler goes on with an empty object and displays a
\* notification with the default body.
C12_InvalidPayloadShowsDefault ==
    (lastPush.outcome # "none" /\ lastPush.data # NO_DATA
         /\ JsonParse(lastPush.data).kind = "SyntaxError")
        => /\ lastPush.outcome = "shown"
           /\ lastPush.shown.body = DEFAULT_BODY
           /\ Len(tray) = 1 => tray[1] = lastPush.shown

\* C13 (as claimed): every push event displays one notification with the title
\* 'ShoreSquad' and the fixed tag; its body is the payload's body field when the
\* payload has one, and the default text when the payload is absent or has no
\* body field.
C13_OneNotificationPerPush ==
    lastPush.outcome # "none"
        => /\ lastPush.outcome = "shown"
           /\ lastPush.shown.title = NOTIFICATION_TITLE
           /\ lastPush.shown.tag = NOTIFICATION_TAG
           /\ LET data == PushData(lastPush.data)
              IN  /\ (data.kind = "object" /\ data.hasBody) => lastPush.shown.body = data.body
                  /\ (data.kind = "object" /\ ~data.hasBody) => lastPush.shown.body = DEFAULT_BODY

\* C14: an activation that finds only the current generation in cache storage
\* (as a re-activation without a version change does) is a no-op: when
\* caches.keys() resolves no deletion is issued, and the activation then
\* completes fulfilled; neither step changes cache storage.
C14_ReactivationIsNoOp ==
    [][ \A w \in Workers :
          /\ (wstate[w] = "activating" /\ actPc[w] = "keys" /\ actPc'[w] = "all"
                  /\ cacheList = { cacheName[w] })
                => (del'[w] = NoDel /\ cacheList' = cacheList /\ store' = store)
          /\ (wstate[w] = "activating" /\ actPc[w] = "all" /\ del[w] = NoDel
                  /\ wstate'[w] = "activated")
                => (actPc'[w] = "fulfilled" /\ cacheList' = cacheList /\ store' = store)
      ]_vars

\* the redeployed worker, same version string, has activated over the cache its
\* predecessor left, and the cache is as the install made it
C14_Witness ==
    /\ cacheName["prev"] = cacheName["cur"]
    /\ actPc["prev"] = "fulfilled" /\ inst["prev"] = "ok"
    /\ wstate["cur"] = "activated" /\ actPc["cur"] = "fulfilled" /\ del["cur"] = NoDel
    /\ cacheList = { CACHE_NAME }
    /\ ManifestKeys \subseteq DOMAIN store[CACHE_NAME]

\* C15: once the store of a network response has been started, whether it is
\* still in flight, has failed at caches.open or at cache.put, or has succeeded,
\* the page has already been answered, and with the network response itself.
C15_StoreFailureSwallowed ==
    \A r \in Reqs :
        req[r].pop \in { "open", "put", "openFailed", "putFailed", "stored" }
            => /\ req[r].pc = "done" /\ req[r].kind = "response"
               /\ req[r].resp = req[r].net
               /\ req[r].resp.status = 200

\* a store has failed after the page was answered from the network
C15_Witness ==
    \E r \in Reqs :
        /\ req[r].pop = "putFailed"
        /\ req[r].pc = "done" /\ req[r].kind = "response" /\ req[r].fetched

\* C16 (as claimed): a notification click closes the notification; when
\* clients.matchAll resolves, if a window of the app is open at the site root
\* that window is focused and no window is opened, and otherwise a window is
\* opened at the root.
C16_ClickFocusesRootClient ==
    [][ /\ (click.pc = "idle" /\ click'.pc = "matchAll") => Len(tray') = Len(tray) - 1
        /\ (click.pc = "matchAll" /\ click'.pc = "idle")
              => IF \E i \in 1..Len(windows) : windows[i] = AbsUrl(ROOT_PATH)
                 THEN /\ windows' = windows
                      /\ focused' \in 1..Len(windows)
                      /\ windows[focused'] = AbsUrl(ROOT_PATH)
                 ELSE windows' = Append(windows, AbsUrl(ROOT_PATH))
      ]_vars

\* C17 (as claimed): a GET to the API is answered network-first: the network is
\* asked for every such request, and the answer comes from the cache only when
\* the network fetch failed.
C17_ApiNetworkFirst ==
    \A r \in Reqs :
        (req[r].pc = "done" /\ req[r].method = "GET" /\ req[r].url = API_URL)
            => /\ req[r].fetched
               /\ req[r].net # Rejected => (req[r].kind = "response" /\ req[r].resp = req[r].net)

\* C18 (as claimed): when a page loads with 'true' stored under darkMode, then
\* after the DOMContentLoaded handler the app is in dark mode, the colour
\* scheme is 'dark', and 'true' is still stored.
C18_DarkModePersists ==
    [][ \A p \in Pages :
          (stored = "true" /\ page[p].pc = "loading" /\ page[p].darkMode
               /\ page'[p].pc = "ready")
            => (page'[p].darkMode /\ page'[p].colorScheme = "dark" /\ stored' = "true")
      ]_vars

\* C19 (as claimed): the fetch handler of the current deployment answers a GET
\* from the cache only when the key is in the cache generation named by the
\* current version string; a key held only by a stale generation that has not
\* been deleted is a miss and goes to the network.
C19_HitOnlyInCurrentGeneration ==
    [][ \A r \in Reqs :
          (req[r].worker = "cur" /\ req[r].pc = "match" /\ req'[r].pc # "match")
            => IF req[r].url \in DOMAIN store[CACHE_NAME] /\ CACHE_NAME \in cacheList
               THEN req'[r].pc = "done"
               ELSE req'[r].pc = "net"
      ]_vars

\* C20: within one GET, fetch(event.request) is called only when the cache
\* lookup of that request resolves, and resolves with a miss; while the lookup
\* is in flight no fetch has been started for the request.
C20_FetchOnlyAfterMiss ==
    [][ \A r \in Reqs :
          /\ (~req[r].fetched /\ req'[r].fetched)
                => (req[r].pc = "match" /\ req'[r].pc = "net" /\ Holding(req[r].url) = {})
          /\ req'[r].pc = "match" => ~req'[r].fetched
      ]_vars

\* a lookup has missed and the network fetch it led to is in flight
C20_Witness ==
    \E r \in Reqs :
        /\ req[r].pc = "net" /\ req[r].fetched /\ req[r].method = "GET"
        /\ req[r].net = NoResp

\* C21 (as claimed): once the forecast request of loadWeatherData has been
\* dealt with, weather cards are rendered; when the API gave no usable forecast
\* (the request was rejected, the body is not JSON, items is absent or empty,
\* or no item has a forecast) the cards are those of the four hardcoded
\* fallback entries; and at most four cards come from API data.
C21_WeatherFallback ==
    forecast.pc = "done"
        => /\ weatherCards.rendered /\ Len(weatherCards.cards) > 0
           /\ Len(weatherCards.cards) <= WEATHER_DAYS
           /\ ( \/ forecast.outcome = "rejected"
                \/ forecast.body.kind # "object"
                \/ ~forecast.body.hasItems
                \/ \A k \in 1..Len(forecast.body.items) :
                       \/ ~forecast.body.items[k].hasForecasts
                       \/ Len(forecast.body.items[k].forecasts) = 0 )
                => weatherCards.cards = RenderWeatherCards(getMockWeatherData)

\* C22 (as claimed): the event cards that loadInitialData renders show the
\* three mock cleanup events, whether the geolocation callback or the timer
\* fires first, and when the browser has no geolocation.
C22_EventCardsShowMockEvents ==
    eventCards.rendered => eventCards.cards = RenderEventCards(mockEvents)
====
